---- MODULE Spec2Model ----
(***************************************************************************)
(* Fractal-Midi (script.py): a monophonic melody is turned into a fractal  *)
(* of itself.  The module models the functions of script.py and the Track  *)
(* operations they call.                                                   *)
(*                                                                         *)
(* Events are records [type, pitch, velocity, tick]; a track is a record   *)
(* [events, relative].  Ticks of the input are integers.  From the first   *)
(* division on (track / ratio) Python computes with floats; the model      *)
(* computes with exact rationals <<n, d>> (d > 0, lowest terms), and the   *)
(* pitches it draws are octaves apart, so that the equal-tempered ratio    *)
(* 2^(difference/12) is itself a rational.                                 *)
(*                                                                         *)
(* The Track class and the event classes are those of the mydy package,    *)
(* which script.py imports.  Their operations (length, make_ticks_abs,     *)
(* make_ticks_rel, slicing, and the operators +, / and power) are modelled *)
(* as the design describes them: a track is a value, every operation       *)
(* returns a new track, and a slice keeps the mode of its track.           *)
(*                                                                         *)
(* Three specifications: Spec is the driver and fractalize_track, step by  *)
(* step; SpecOps calls fix_mary, sort_ticks, split_header_meta_events,     *)
(* get_root and get_note_info on a track; SpecNote calls the power         *)
(* operator of a track and fractalize_note.                                *)
(***************************************************************************)
EXTENDS Integers, Sequences, FiniteSets

VARIABLES
    pc,           \* the position of the running call
    input,        \* the track the run starts from
    end_is_meta,  \* whether Events.EndOfTrackEvent is a subclass of Events.MetaEvent
    call,         \* the other arguments of a function called on its own
    arg,          \* fractalize_track: the track it was called with
    resolution,   \* fractalize_track: its resolution argument
    track,        \* fractalize_track: its local variable track
    root,         \* fractalize_track: its local variable root
    note_tuples,  \* fractalize_track: the generator, [track, i]
    header,       \* fractalize_track: its local variable header
    endevent,     \* fractalize_track: its local variable endevent
    fractal,      \* fractalize_track: the accumulator of reduce, then fractal
    result,       \* what the call returned
    err           \* the exception the call raised

vars == <<pc, input, end_is_meta, call, arg, resolution, track, root, note_tuples, header,
          endevent, fractal, result, err>>

\* ------------------------------------------------------------- bounds
MaxLen == 3
MaxTick == 1
MaxRepeat == 3

\* script.py:5
Q_NOTE_PHRASE_LEN == 16

Pitches == {60, 72}
Resolutions == {12, 16}
Deltas == {0, 1}
Ticks == 0..MaxTick
\* the (pitch, velocity) pairs of the NoteOn events drawn
NoteOns == {<<60, 64>>, <<72, 64>>, <<60, 0>>, <<72, 0>>}
\* repeat counts: whole numbers, halves and thirds
RepeatCounts == {<<h, 1>> : h \in 0..MaxRepeat} \cup {<<1, 2>>, <<3, 2>>, <<2, 3>>, <<4, 3>>}

\* Python's None is the empty sequence, and a value that may be None is
\* the one-element sequence of it
None == <<>>
Some(x) == <<x>>

\* ---------------------------------------------------------- rationals
RECURSIVE Gcd(_, _)
Gcd(a, b) == IF b = 0 THEN a ELSE Gcd(b, a % b)

Abs(x) == IF x < 0 THEN -x ELSE x

Rat(n, d) ==
    LET s == IF d < 0 THEN -1 ELSE 1
        g == Gcd(Abs(n), Abs(d))
    IN  <<(s * n) \div g, (s * d) \div g>>

ToRat(i) == <<i, 1>>
RAdd(x, y) == Rat(x[1] * y[2] + y[1] * x[2], x[2] * y[2])
RMul(x, y) == Rat(x[1] * y[1], x[2] * y[2])
RDiv(x, y) == Rat(x[1] * y[2], x[2] * y[1])
RLess(x, y) == x[1] * y[2] < y[1] * x[2]
RFloor(x) == x[1] \div x[2]
RFrac(x) == Rat(x[1] % x[2], x[2])
RZero == <<0, 1>>

\* ------------------------------------------------------------- events
NoteOnEvent(p, v, t) == [type |-> "NoteOn", pitch |-> p, velocity |-> v, tick |-> t]
NoteOffEvent(p, v, t) == [type |-> "NoteOff", pitch |-> p, velocity |-> v, tick |-> t]
MetaEvent(t) == [type |-> "Meta", pitch |-> 0, velocity |-> 0, tick |-> t]
EndOfTrackEvent(t) == [type |-> "EndOfTrack", pitch |-> 0, velocity |-> 0, tick |-> t]

IsNoteOn(e) == e.type = "NoteOn"
\* isinstance(event, Events.MetaEvent).  The event classes are those of the
\* mydy package: script.py does not say whether an EndOfTrackEvent is a
\* MetaEvent, and both class hierarchies are modelled.
IsMeta(e) == e.type = "Meta" \/ (end_is_meta /\ e.type = "EndOfTrack")
IsEndOfTrack(e) == e.type = "EndOfTrack"

Track(evs, rel) == [events |-> evs, relative |-> rel]

SetTick(e, t) == [e EXCEPT !.tick = t]

\* ------------------------------------------- Track operations (library)
RECURSIVE SumTicks(_)
SumTicks(evs) == IF evs = <<>> THEN 0 ELSE Head(evs).tick + SumTicks(Tail(evs))

RECURSIVE RSumTicks(_)
RSumTicks(evs) == IF evs = <<>> THEN RZero ELSE RAdd(Head(evs).tick, RSumTicks(Tail(evs)))

\* length of a track with integer ticks
Length(t) ==
    IF t.relative THEN SumTicks(t.events)
    ELSE IF t.events = <<>> THEN 0 ELSE t.events[Len(t.events)].tick

\* length of a track with rational ticks
RLength(t) ==
    IF t.relative THEN RSumTicks(t.events)
    ELSE IF t.events = <<>> THEN RZero ELSE t.events[Len(t.events)].tick

RECURSIVE AbsFrom(_, _)
AbsFrom(evs, base) ==
    IF evs = <<>> THEN <<>>
    ELSE <<SetTick(Head(evs), base + Head(evs).tick)>>
         \o AbsFrom(Tail(evs), base + Head(evs).tick)

RECURSIVE RelFrom(_, _)
RelFrom(evs, prev) ==
    IF evs = <<>> THEN <<>>
    ELSE <<SetTick(Head(evs), Head(evs).tick - prev)>>
         \o RelFrom(Tail(evs), Head(evs).tick)

make_ticks_abs(t) ==
    IF t.relative THEN Track(AbsFrom(t.events, 0), FALSE) ELSE t

make_ticks_rel(t) ==
    IF t.relative THEN t ELSE Track(RelFrom(t.events, 0), TRUE)

\* the absolute positions of a track with rational ticks
RECURSIVE RAbsFrom(_, _)
RAbsFrom(evs, base) ==
    IF evs = <<>> THEN <<>>
    ELSE <<SetTick(Head(evs), RAdd(base, Head(evs).tick))>>
         \o RAbsFrom(Tail(evs), RAdd(base, Head(evs).tick))

RAbsEvents(t) == IF t.relative THEN RAbsFrom(t.events, RZero) ELSE t.events

\* the track with its integer ticks read as rationals
AsRational(t) ==
    Track([i \in 1..Len(t.events) |-> SetTick(t.events[i], ToRat(t.events[i].tick))],
          t.relative)

\* track / ratio on rational ticks: every tick divided by the ratio
RScale(t, ratio) ==
    Track([i \in 1..Len(t.events) |-> SetTick(t.events[i], RDiv(t.events[i].tick, ratio))],
          t.relative)

\* track / ratio on integer ticks
Scale(t, ratio) == RScale(AsRational(t), ratio)

\* every tick moved by d
Rebase(evs, d) == [i \in 1..Len(evs) |-> SetTick(evs[i], RAdd(evs[i].tick, d))]

\* a + b: in relative mode the deltas follow one another; in absolute mode
\* the second track is rebased by the length of the first
Concat(a, b) ==
    IF a.relative
    THEN Track(a.events \o b.events, TRUE)
    ELSE Track(a.events \o Rebase(b.events, RLength(a)), FALSE)

RECURSIVE Copies(_, _)
Copies(t, k) ==
    IF k = 0 THEN Track(<<>>, t.relative) ELSE Concat(Copies(t, k - 1), t)

\* <= for <: the event at the limit itself is taken too
PrefixBelow_inclusive(t, limit) ==
    LET a == RAbsEvents(t)
        Below(e) == ~RLess(limit, e.tick)
        n == Cardinality({i \in 1..Len(a) : Below(a[i])})
    IN  IF t.relative THEN Track(SubSeq(t.events, 1, n), TRUE)
        ELSE Track(SelectSeq(t.events, Below), FALSE)

\* the events of t whose absolute position is < limit, in the mode of t
\* (positions never decrease along a relative track, so they are a prefix)
PrefixBelow(t, limit) ==
    LET a == RAbsEvents(t)
        Below(e) == RLess(e.tick, limit)
        n == Cardinality({i \in 1..Len(a) : Below(a[i])})
    IN  IF t.relative THEN Track(SubSeq(t.events, 1, n), TRUE)
        ELSE Track(SelectSeq(t.events, Below), FALSE)

\* track ** n, n >= 0 a rational: floor(n) copies, then the prefix of the
\* events before (n - floor(n)) * length
Repeat(t, n) ==
    LET k == RFloor(n)
        f == RFrac(n)
    IN  IF f = RZero THEN Copies(t, k)
        ELSE Concat(Copies(t, k), PrefixBelow(t, RMul(f, RLength(t))))

\* ---------------------------------------------------------- script.py
\* the index of the first NoteOn event at or after position i, 0 if none
RECURSIVE NextNoteOn(_, _)
NextNoteOn(evs, i) ==
    IF i > Len(evs) THEN 0
    ELSE IF IsNoteOn(evs[i]) THEN i ELSE NextNoteOn(evs, i + 1)

get_root(t) ==
    LET i == NextNoteOn(t.events, 1)
    IN  IF i = 0 THEN None ELSE Some(t.events[i].pitch)

RECURSIVE Pow2(_)
Pow2(k) == IF k = 0 THEN 1 ELSE 2 * Pow2(k - 1)

\* TWELVE_ROOT_TWO ** (pitch - root), for a difference of whole octaves:
\* the power of two itself, which the float result equals up to rounding
get_ratio(r, pitch) ==
    LET difference == pitch - r
    IN  IF difference >= 0 THEN <<Pow2(difference \div 12), 1>>
        ELSE <<1, Pow2((-difference) \div 12)>>

\* get_note_info resumed with its loop at position i: the tuple it yields
\* and the position it stops at, the end of the loop, or the IndexError of
\* track[i+1]
get_note_info(t, i) ==
    LET j == NextNoteOn(t.events, i)
    IN  IF j = 0 THEN [kind |-> "StopIteration"]
        ELSE IF j + 1 > Len(t.events) THEN [kind |-> "IndexError"]
        ELSE [kind |-> "yield",
              value |-> <<t.events[j].pitch, t.events[j + 1].tick, t.events[j].tick>>,
              i |-> j + 1]

\* the first tick computed from the duration of the tuple, not its tick
fractalize_note_duration(res, r, t, note_info) ==
    LET pitch == note_info[1]
        duration == note_info[2]
        quarter_notes == Rat(duration, res)
        ratio == get_ratio(r, pitch)
        repetitions == RMul(RMul(ToRat(Q_NOTE_PHRASE_LEN), quarter_notes), ratio)
        fract == Repeat(Scale(t, ratio), repetitions)
        first == RMul(RMul(Rat(duration, res), ToRat(Length(t))), ToRat(Q_NOTE_PHRASE_LEN))
    IN  IF fract.events = <<>> THEN [kind |-> "IndexError"]
        ELSE [kind |-> "return",
              value |-> Track(<<SetTick(fract.events[1], first)>> \o Tail(fract.events),
                              fract.relative)]

fractalize_note(res, r, t, note_info) ==
    LET pitch == note_info[1]
        duration == note_info[2]
        tick == note_info[3]
        quarter_notes == Rat(duration, res)
        ratio == get_ratio(r, pitch)
        repetitions == RMul(RMul(ToRat(Q_NOTE_PHRASE_LEN), quarter_notes), ratio)
        fract == Repeat(Scale(t, ratio), repetitions)
        first == RMul(RMul(Rat(tick, res), ToRat(Length(t))), ToRat(Q_NOTE_PHRASE_LEN))
    IN  IF fract.events = <<>> THEN [kind |-> "IndexError"]
        ELSE [kind |-> "return",
              value |-> Track(<<SetTick(fract.events[1], first)>> \o Tail(fract.events),
                              fract.relative)]

\* the velocity test left out: every NoteOn event is rewritten
FixEvent_anyNoteOn(e) ==
    IF IsNoteOn(e) THEN NoteOffEvent(e.pitch, e.velocity, e.tick) ELSE e

FixEvent(e) ==
    IF IsNoteOn(e) /\ e.velocity = 0
    THEN NoteOffEvent(e.pitch, e.velocity, e.tick)
    ELSE e

fix_mary(t) == Track([i \in 1..Len(t.events) |-> FixEvent(t.events[i])], t.relative)

\* the index of the first event that is not a MetaEvent, 0 if none
RECURSIVE FirstNonMeta(_, _)
FirstNonMeta(evs, i) ==
    IF i > Len(evs) THEN 0
    ELSE IF ~IsMeta(evs[i]) THEN i ELSE FirstNonMeta(evs, i + 1)

split_header_meta_events(t) ==
    LET i == FirstNonMeta(t.events, 1)
    IN  IF i # 0
        THEN <<Track(SubSeq(t.events, 1, i - 1), t.relative),
               Track(SubSeq(t.events, i, Len(t.events)), t.relative)>>
        ELSE <<Track(<<>>, t.relative), t>>

\* the factor 10 left out: a NoteOn ties with the events one tick later
SortKey_unscaled(e) == e.tick + (IF IsNoteOn(e) THEN 1 ELSE 0)

SortKey(e) == e.tick * 10 + (IF IsNoteOn(e) THEN 1 ELSE 0)

\* x put after every event of the sorted sequence whose key is <= its own
RECURSIVE InsertSorted(_, _)
InsertSorted(evs, x) ==
    IF evs = <<>> THEN <<x>>
    ELSE IF SortKey(evs[Len(evs)]) <= SortKey(x) THEN Append(evs, x)
    ELSE Append(InsertSorted(SubSeq(evs, 1, Len(evs) - 1), x), evs[Len(evs)])

\* sorted(track, key=...): Python's sort is stable
RECURSIVE Sorted(_)
Sorted(evs) ==
    IF evs = <<>> THEN <<>>
    ELSE InsertSorted(Sorted(SubSeq(evs, 1, Len(evs) - 1)), evs[Len(evs)])

sort_ticks(t) == make_ticks_rel(Track(Sorted(make_ticks_abs(t).events), FALSE))

\* ------------------------------------------------------------- inputs
SeqsUpTo(S, n) == UNION {[1..k -> S] : k \in 0..n}

EventsAt(T) ==
    {NoteOnEvent(n[1], n[2], t) : n \in NoteOns, t \in T}
    \cup {NoteOffEvent(60, 0, t) : t \in T}
    \cup {MetaEvent(t) : t \in T}
    \cup {EndOfTrackEvent(t) : t \in T}

\* the events fractalize_note and ** are given: they read only the ticks
PlainEventsAt(T) ==
    {NoteOnEvent(60, 64, t) : t \in T} \cup {NoteOffEvent(60, 0, t) : t \in T}

given == <<input, end_is_meta>>

Idle ==
    /\ pc = "start"
    /\ call = None
    /\ arg = None
    /\ resolution = None
    /\ track = None
    /\ root = None
    /\ note_tuples = None
    /\ header = None
    /\ endevent = None
    /\ fractal = None
    /\ result = None
    /\ err = None

\* a track as FileIO.read_midifile returns it: relative
Init ==
    /\ input \in {Track(evs, TRUE) : evs \in SeqsUpTo(EventsAt(Deltas), MaxLen)}
    /\ end_is_meta \in BOOLEAN
    /\ Idle

InitOps ==
    /\ input \in {Track(evs, rel) : evs \in SeqsUpTo(EventsAt(Ticks), MaxLen),
                                    rel \in BOOLEAN}
    /\ end_is_meta \in BOOLEAN
    /\ Idle

InitNote ==
    /\ input \in {Track(evs, rel) : evs \in SeqsUpTo(PlainEventsAt(Ticks), MaxLen),
                                    rel \in BOOLEAN}
    /\ end_is_meta = FALSE
    /\ Idle

\* ------------------------------------------------ the driver (__main__)
locals == <<track, root, note_tuples, header, endevent, fractal>>

\* the driver without its call of fix_mary
Main_unfixed ==
    /\ pc = "start"
    /\ pc' = "main"
    /\ arg' = input
    /\ UNCHANGED <<given, call, resolution, locals, result, err>>

\* sotw_track = fix_mary(sotw[0])
Main ==
    /\ pc = "start"
    /\ pc' = "main"
    /\ arg' = fix_mary(input)
    /\ UNCHANGED <<given, call, resolution, locals, result, err>>

\* --------------------------------------------------- fractalize_track
Raise(e) ==
    /\ pc' = "raised"
    /\ err' = e

\* the call, from the driver or on the input as it is, and line 60
SortTicks ==
    /\ pc \in {"start", "main"}
    /\ \E res \in Resolutions : resolution' = res
    /\ arg' = IF pc = "main" THEN arg ELSE input
    /\ track' = sort_ticks(arg')
    /\ pc' = "sorted"
    /\ call' = IF pc = "main" THEN <<"main">> ELSE <<"direct">>
    /\ UNCHANGED <<given, root, note_tuples, header, endevent, fractal, result, err>>

\* line 61
GetRoot ==
    /\ pc = "sorted"
    /\ root' = get_root(track)
    /\ pc' = "rooted"
    /\ UNCHANGED <<given, call, arg, resolution, track, note_tuples, header,
                   endevent, fractal, result, err>>

\* lines 62-63: the generator is created, not run; the header is split off
SplitHeader ==
    /\ pc = "rooted"
    /\ note_tuples' = [track |-> track, i |-> 1]
    /\ header' = split_header_meta_events(track)[1]
    /\ track' = split_header_meta_events(track)[2]
    /\ pc' = "split"
    /\ UNCHANGED <<given, call, arg, resolution, root, endevent, fractal, result, err>>

\* lines 64-67: track[-1] of an empty track raises IndexError
DetachEnd ==
    /\ pc = "split"
    /\ IF track.events = <<>>
       THEN /\ Raise("IndexError")
            /\ UNCHANGED <<track, endevent>>
       ELSE /\ IF IsEndOfTrack(track.events[Len(track.events)])
               THEN /\ endevent' = Some(track.events[Len(track.events)])
                    /\ track' = Track(SubSeq(track.events, 1, Len(track.events) - 1),
                                      track.relative)
               ELSE UNCHANGED <<track, endevent>>
            /\ pc' = "reduce"
            /\ UNCHANGED err
    /\ UNCHANGED <<given, call, arg, resolution, root, note_tuples, header,
                   fractal, result>>

\* lines 74-75, one step of reduce: the next tuple of the generator, its
\* block, and the sum so far; reduce of no block at all raises TypeError
ReduceStep ==
    /\ pc = "reduce"
    /\ LET nxt == get_note_info(note_tuples.track, note_tuples.i)
           block == fractalize_note(resolution, root[1], track, nxt.value)
       IN  CASE nxt.kind = "IndexError" ->
                    /\ Raise("IndexError")
                    /\ UNCHANGED <<note_tuples, fractal>>
             [] nxt.kind = "StopIteration" /\ fractal = None ->
                    /\ Raise("TypeError")
                    /\ UNCHANGED <<note_tuples, fractal>>
             [] nxt.kind = "StopIteration" /\ fractal # None ->
                    /\ pc' = "reduced"
                    /\ UNCHANGED <<note_tuples, fractal, err>>
             [] nxt.kind = "yield" /\ block.kind = "IndexError" ->
                    /\ Raise("IndexError")
                    /\ note_tuples' = [note_tuples EXCEPT !.i = nxt.i]
                    /\ UNCHANGED fractal
             [] nxt.kind = "yield" /\ block.kind = "return" ->
                    /\ note_tuples' = [note_tuples EXCEPT !.i = nxt.i]
                    /\ fractal' = IF fractal = None THEN Some(block.value)
                                  ELSE Some(Concat(fractal[1], block.value))
                    /\ UNCHANGED <<pc, err>>
    /\ UNCHANGED <<given, call, arg, resolution, track, root, header, endevent, result>>

\* lines 76-80: the end event is appended, the ticks are divided, the
\* header is put in front; a division by 0.0 raises ZeroDivisionError
Return ==
    /\ pc = "reduced"
    /\ LET withEnd == IF endevent # None
                      THEN Track(Append(fractal[1].events,
                                        SetTick(endevent[1], ToRat(endevent[1].tick))),
                                 fractal[1].relative)
                      ELSE fractal[1]
           divisor == RMul(Rat(Length(track), resolution), ToRat(Q_NOTE_PHRASE_LEN))
       IN  IF divisor = RZero
           THEN /\ Raise("ZeroDivisionError")
                /\ UNCHANGED <<fractal, result>>
           ELSE /\ fractal' = Some(RScale(withEnd, divisor))
                /\ result' = Concat(AsRational(header), fractal'[1])
                /\ pc' = "done"
                /\ UNCHANGED err
    /\ UNCHANGED <<given, call, arg, resolution, track, root, note_tuples, header, endevent>>

Next == Main \/ SortTicks \/ GetRoot \/ SplitHeader \/ DetachEnd \/ ReduceStep \/ Return

Spec == Init /\ [][Next]_vars

\* ------------------------------- the functions called on their own
CallFixMary ==
    /\ pc = "start"
    /\ pc' = "fix_mary"
    /\ result' = fix_mary(input)
    /\ UNCHANGED <<given, call, arg, resolution, locals, err>>

CallSortTicks ==
    /\ pc = "start"
    /\ pc' = "sort_ticks"
    /\ result' = sort_ticks(input)
    /\ UNCHANGED <<given, call, arg, resolution, locals, err>>

CallSplitHeader ==
    /\ pc = "start"
    /\ pc' = "split_header_meta_events"
    /\ result' = split_header_meta_events(input)
    /\ UNCHANGED <<given, call, arg, resolution, locals, err>>

CallGetRoot ==
    /\ pc = "start"
    /\ pc' = "get_root"
    /\ result' = get_root(input)
    /\ UNCHANGED <<given, call, arg, resolution, locals, err>>

\* get_note_info(track): the generator, and the list of what it yielded
CallGetNoteInfo ==
    /\ pc = "start"
    /\ pc' = "get_note_info"
    /\ note_tuples' = [track |-> input, i |-> 1]
    /\ result' = <<>>
    /\ UNCHANGED <<given, call, arg, resolution, track, root, header, endevent,
                   fractal, err>>

\* next(generator)
NextTuple ==
    /\ pc = "get_note_info"
    /\ LET nxt == get_note_info(note_tuples.track, note_tuples.i)
       IN  CASE nxt.kind = "IndexError" ->
                    /\ Raise("IndexError")
                    /\ UNCHANGED <<note_tuples, result>>
             [] nxt.kind = "StopIteration" ->
                    /\ pc' = "exhausted"
                    /\ UNCHANGED <<note_tuples, result, err>>
             [] nxt.kind = "yield" ->
                    /\ note_tuples' = [note_tuples EXCEPT !.i = nxt.i]
                    /\ result' = Append(result, nxt.value)
                    /\ UNCHANGED <<pc, err>>
    /\ UNCHANGED <<given, call, arg, resolution, track, root, header, endevent, fractal>>

NextOps ==
    \/ CallFixMary
    \/ CallSortTicks
    \/ CallSplitHeader
    \/ CallGetRoot
    \/ CallGetNoteInfo
    \/ NextTuple

SpecOps == InitOps /\ [][NextOps]_vars

\* track ** n
CallRepeat ==
    /\ pc = "start"
    /\ \E n \in RepeatCounts :
          /\ call' = [n |-> n]
          /\ result' = Repeat(AsRational(input), n)
    /\ pc' = "repeat"
    /\ UNCHANGED <<given, arg, resolution, locals, err>>

\* fractalize_note(resolution, ratio_wrt_root, track, note_info)
CallFractalizeNote ==
    /\ pc = "start"
    /\ \E res \in Resolutions, r \in Pitches, pitch \in Pitches,
          duration \in Ticks, tick \in Ticks :
          LET block == fractalize_note(res, r, input, <<pitch, duration, tick>>)
          IN  /\ call' = [resolution |-> res, root |-> r,
                          note_info |-> <<pitch, duration, tick>>]
              /\ IF block.kind = "return"
                 THEN /\ result' = Some(block.value)
                      /\ pc' = "fractalize_note"
                      /\ UNCHANGED err
                 ELSE /\ Raise(block.kind)
                      /\ UNCHANGED result
    /\ UNCHANGED <<given, arg, resolution, locals>>

NextNote == CallRepeat \/ CallFractalizeNote

SpecNote == InitNote /\ [][NextNote]_vars

\* ------------------------------------------------------------- claims
Count(evs, e) == Cardinality({i \in 1..Len(evs) : evs[i] = e})
Range(evs) == {evs[i] : i \in 1..Len(evs)}
IsPermutation(a, b) ==
    /\ Len(a) = Len(b)
    /\ \A e \in Range(a) \cup Range(b) : Count(a, e) = Count(b, e)

IsZeroNoteOn(e) == IsNoteOn(e) /\ e.velocity = 0

\* C1: fix_mary returns a track of the same mode with as many events, in
\* which every NoteOn event of velocity 0 is replaced, where it stands, by
\* a NoteOff event of the same tick, pitch and velocity, and every other
\* event is the one of the input; no NoteOn of velocity 0 is left.
C1_FixMaryRewrites ==
    pc = "fix_mary" =>
        /\ result.relative = input.relative
        /\ Len(result.events) = Len(input.events)
        /\ \A i \in 1..Len(input.events) :
              LET e == input.events[i]
                  o == result.events[i]
              IN  IF IsZeroNoteOn(e)
                  THEN /\ o.type = "NoteOff"
                       /\ o.tick = e.tick
                       /\ o.pitch = e.pitch
                       /\ o.velocity = e.velocity
                  ELSE o = e
        /\ \A i \in 1..Len(result.events) : ~IsZeroNoteOn(result.events[i])

C1_Witness ==
    /\ pc = "fix_mary"
    /\ \E i, j \in 1..Len(input.events) :
          /\ IsZeroNoteOn(input.events[i])
          /\ IsNoteOn(input.events[j]) /\ input.events[j].velocity > 0
          /\ result.events[i].type = "NoteOff"

\* C2: sort_ticks returns a permutation of the events of its input (each
\* at its absolute tick) in which the absolute ticks never decrease and, at
\* a shared absolute tick, no NoteOn event stands before an event that is
\* not a NoteOn.
C2_SortTicksOrders ==
    pc = "sort_ticks" =>
        LET a == make_ticks_abs(input).events
            o == make_ticks_abs(result).events
        IN  /\ IsPermutation(a, o)
            /\ \A i, j \in 1..Len(o) :
                  i < j =>
                      /\ o[i].tick <= o[j].tick
                      /\ (o[i].tick = o[j].tick /\ IsNoteOn(o[i])) => IsNoteOn(o[j])

\* a NoteOn that stood before a NoteOff of the same absolute tick has been
\* moved behind it
C2_Witness ==
    /\ pc = "sort_ticks"
    /\ LET a == make_ticks_abs(input).events
           o == make_ticks_abs(result).events
       IN  /\ a # o
           /\ \E i, j \in 1..Len(a) :
                 /\ i < j
                 /\ IsNoteOn(a[i]) /\ ~IsNoteOn(a[j])
                 /\ a[i].tick = a[j].tick

\* the longest run of Meta events a sequence starts with
RECURSIVE LeadingMeta(_)
LeadingMeta(evs) ==
    IF evs # <<>> /\ IsMeta(Head(evs)) THEN 1 + LeadingMeta(Tail(evs)) ELSE 0

\* C5: split_header_meta_events returns (header, body) with header the
\* maximal leading run of Meta events and body the remaining events, also
\* for a track of Meta events only (header all of them, body empty).
C5_SplitIsLeadingRun ==
    pc = "split_header_meta_events" =>
        LET n == LeadingMeta(input.events)
        IN  /\ result[1].events = SubSeq(input.events, 1, n)
            /\ result[2].events = SubSeq(input.events, n + 1, Len(input.events))
            /\ result[1].events \o result[2].events = input.events

\* the tuples of the NoteOn events of a track, the tick of the event after
\* the last event read as absent
NoteOnIndexes(evs) == {i \in 1..Len(evs) : IsNoteOn(evs[i])}

RECURSIVE TuplesFrom(_, _)
TuplesFrom(evs, i) ==
    IF i >= Len(evs) THEN <<>>
    ELSE (IF IsNoteOn(evs[i]) THEN <<<<evs[i].pitch, evs[i + 1].tick, evs[i].tick>>>>
          ELSE <<>>) \o TuplesFrom(evs, i + 1)

\* C9: get_note_info yields one tuple per NoteOn event, in track order,
\* (pitch, tick of the next event, own tick), and ends normally after the
\* last event, also when the last event of the track is a NoteOn.
C9_NoteInfoEndsNormally ==
    (note_tuples # None /\ call = None /\ pc \in {"exhausted", "raised"}) =>
        /\ pc = "exhausted"
        /\ Len(result) = Cardinality(NoteOnIndexes(input.events))
        /\ SubSeq(result, 1, Len(TuplesFrom(input.events, 1))) = TuplesFrom(input.events, 1)

\* ------------------------------------- claims about fractalize_track
\* the positions of a call of fractalize_track after line 60
InFractalize == {"sorted", "rooted", "split", "reduce", "reduced", "done", "raised"}

\* the track lines 61 and 62 read
Seen == sort_ticks(arg)

Min(S) == CHOOSE x \in S : \A y \in S : x <= y

RealNoteOns(evs) == {i \in 1..Len(evs) : IsNoteOn(evs[i]) /\ evs[i].velocity > 0}

\* C3: get_root returns the pitch of the first NoteOn event, and on a track
\* without NoteOn event fractalize_track stops at line 61 with
\* EmptyMelodyError, before any later step.
C3_EmptyMelodyError ==
    pc \in InFractalize \ {"sorted"} =>
        LET on == NoteOnIndexes(Seen.events)
        IN  IF on = {}
            THEN pc = "raised" /\ err = "EmptyMelodyError" /\ note_tuples = None
            ELSE root = Some(Seen.events[Min(on)].pitch)

\* root and tuples come from NoteOn events of velocity > 0 only, and at a
\* shared absolute tick no such event stands before a NoteOn of velocity 0
ZeroNoteOnIsNoteOff ==
    LET s == Seen.events
        a == make_ticks_abs(Seen).events
        real == RealNoteOns(s)
    IN  /\ pc # "sorted" =>
              root = (IF real = {} THEN None ELSE Some(s[Min(real)].pitch))
        /\ (note_tuples # None /\ note_tuples.i > 1) => (note_tuples.i - 1) \in real
        /\ \A i, j \in 1..Len(a) :
              (i < j /\ a[i].tick = a[j].tick /\ i \in real) => j \in real

\* C4 as claimed: fractalize_track itself applies the Note Normalizer, so in
\* every call a NoteOn event of velocity 0 of the track passed in never
\* becomes the root, never yields a tuple and is ordered before the real
\* NoteOn events of its tick.
C4_FractalizeNormalizes == pc \in InFractalize => ZeroNoteOnIsNoteOff

\* C4 as amended: the driver applies fix_mary before it calls
\* fractalize_track, which applies sort_ticks only; in the driver's run a
\* NoteOn event of velocity 0 of the input is a NoteOff event of the sorted
\* track, so it never becomes the root, never yields a tuple, and stands
\* before the NoteOn events of its tick.
C4_DriverNormalizes ==
    (pc \in InFractalize /\ call = <<"main">>) =>
        /\ ZeroNoteOnIsNoteOff
        /\ \A i \in 1..Len(Seen.events) : ~IsZeroNoteOn(Seen.events[i])
        /\ Cardinality(NoteOnIndexes(Seen.events)) = Cardinality(RealNoteOns(input.events))
        /\ Len(Seen.events) = Len(input.events)

\* the driver's run on a track that starts with a NoteOn of velocity 0 and
\* pitch 72: the root is the 60 of the NoteOn after it, whose tuple was
\* yielded
C4_Witness ==
    /\ call = <<"main">>
    /\ pc = "done"
    /\ IsZeroNoteOn(input.events[1])
    /\ input.events[1].pitch = 72
    /\ root = Some(60)

HasEndOfTrack(evs) == \E i \in 1..Len(evs) : IsEndOfTrack(evs[i])
EndOfTracks(evs) == {i \in 1..Len(evs) : IsEndOfTrack(evs[i])}

\* a NoteOn event at the absolute tick of the EndOfTrack event
NoteOnAtTerminator(t) ==
    LET a == make_ticks_abs(t).events
    IN  \E i, j \in 1..Len(a) :
            IsNoteOn(a[i]) /\ IsEndOfTrack(a[j]) /\ a[i].tick = a[j].tick

\* C6: for an input with at least one note and at most one EndOfTrack
\* event, the track fractalize_track returns has an EndOfTrack event iff
\* the input has one, has at most one, and has it last; and a track is
\* returned also when a NoteOn event shares the tick of the terminator.
C6_TerminatorKeptLast ==
    (/\ pc \in {"done", "raised"}
     /\ NoteOnIndexes(arg.events) # {}
     /\ Cardinality(EndOfTracks(arg.events)) <= 1) =>
        /\ pc = "done" =>
              /\ HasEndOfTrack(result.events) <=> HasEndOfTrack(arg.events)
              /\ EndOfTracks(result.events) \subseteq {Len(result.events)}
        /\ NoteOnAtTerminator(arg) => pc = "done"

\* ------------------------------ claims about ** and fractalize_note
SameNote(a, b) == a.type = b.type /\ a.pitch = b.pitch /\ a.velocity = b.velocity

\* the u-th smallest element of a set of numbers
Nth(S, u) == CHOOSE x \in S : Cardinality({y \in S : y < x}) = u - 1

\* the result of track ** n is floor(n) copies of the track, copy i at
\* i * length, then the events of the track before (n - floor(n)) * length,
\* at floor(n) * length
RepeatLayout ==
    LET t == AsRational(input)
        n == call.n
        k == RFloor(n)
        f == RFrac(n)
        L == RLength(t)
        m == Len(t.events)
        pos == RAbsEvents(t)
        out == RAbsEvents(result)
        kept == {j \in 1..m : f # RZero /\ RLess(pos[j].tick, RMul(f, L))}
    IN  /\ result.relative = input.relative
        /\ Len(out) = k * m + Cardinality(kept)
        /\ \A i \in 0..(k - 1), j \in 1..m :
              /\ SameNote(out[i * m + j], pos[j])
              /\ out[i * m + j].tick = RAdd(RMul(ToRat(i), L), pos[j].tick)
        /\ \A u \in 1..Cardinality(kept) :
              /\ SameNote(out[k * m + u], pos[Nth(kept, u)])
              /\ out[k * m + u].tick = RAdd(RMul(ToRat(k), L), pos[Nth(kept, u)].tick)

\* the absolute tick, in the track, of the last event of the partial copy
LastOfPartial ==
    LET t == AsRational(input)
        f == RFrac(call.n)
        pos == RAbsEvents(t)
        kept == {j \in 1..Len(pos) : f # RZero /\ RLess(pos[j].tick, RMul(f, RLength(t)))}
    IN  IF kept = {} THEN RZero ELSE pos[Nth(kept, Cardinality(kept))].tick

PlainRepetitions ==
    RMul(ToRat(Q_NOTE_PHRASE_LEN), Rat(call.note_info[2], call.resolution))

\* tick / resolution * track.length * Q_NOTE_PHRASE_LEN
Onset ==
    RMul(RMul(Rat(call.note_info[3], call.resolution), ToRat(Length(input))),
         ToRat(Q_NOTE_PHRASE_LEN))

\* C8 as claimed: for a tuple whose pitch is the root, the track
\* fractalize_note returns is the plain repeat of the unscaled track, the
\* tick of its first event included.
C8_RootBlockIsPlainRepeat ==
    (pc = "fractalize_note" /\ call.note_info[1] = call.root) =>
        result[1] = Repeat(AsRational(input), PlainRepetitions)

\* C8 as amended: for a tuple whose pitch is the root, the track
\* fractalize_note returns has the events of the plain repeat of the
\* unscaled track, each with the tick it has there, except the first event,
\* whose tick is onsetTick / resolution * length(track) * PHRASE_LEN.
C8_RootBlockIsRepositionedRepeat ==
    (pc = "fractalize_note" /\ call.note_info[1] = call.root) =>
        LET plain == Repeat(AsRational(input), PlainRepetitions)
            block == result[1]
        IN  /\ block.relative = plain.relative
            /\ Len(block.events) = Len(plain.events)
            /\ \A i \in 2..Len(block.events) : block.events[i] = plain.events[i]
            /\ block.events[1] = SetTick(plain.events[1], Onset)

\* a root-pitch note that starts after tick 0: the first event of its
\* block is not at the tick it has in the plain repeat
C8_Witness ==
    /\ pc = "fractalize_note"
    /\ call.note_info[1] = call.root
    /\ call.note_info[3] > 0
    /\ Len(result[1].events) > Len(input.events)
    /\ result[1].events[1].tick # ToRat(input.events[1].tick)
    /\ result[1].events[2].tick = ToRat(input.events[2].tick)

\* C10: for a tuple of duration >= 0, of a track that has events (the
\* note's own among them), fractalize_note returns a track: the
\* empty track when the repeat count is 0, and otherwise the repeated
\* scaled track with its first event at
\* onsetTick / resolution * length(track) * PHRASE_LEN.
C10_FractalizeNoteReturns ==
    (call # None /\ pc \in {"fractalize_note", "raised"} /\ input.events # <<>>) =>
        LET ratio == get_ratio(call.root, call.note_info[1])
            repetitions == RMul(PlainRepetitions, ratio)
            repeated == Repeat(Scale(input, ratio), repetitions)
        IN  /\ pc = "fractalize_note"
            /\ IF repetitions = RZero
               THEN result[1].events = <<>>
               ELSE /\ Len(result[1].events) = Len(repeated.events)
                    /\ result[1].events[1].tick = Onset
                    /\ Tail(result[1].events) = Tail(repeated.events)

====
